---- MODULE Spec2Model ----
(***************************************************************************)
(* A model of server/main.py: the FastAPI application that answers         *)
(* JSON-RPC 2.0 requests on POST /mcp and typed requests on                *)
(* POST /process-feedback, both of which end in generate_html_widget.      *)
(*                                                                         *)
(* JSON values are records [type, text, fields, elems]:                    *)
(*   type   "null" | "number" | "string" | "array" | "object"              *)
(*   text   what str() of the Python value prints                          *)
(*   fields the members of an object (a function whose domain is the set   *)
(*          of keys that are present), <<>> for every other type           *)
(*   elems  the elements of an array, <<>> for every other type            *)
(* A Python exception is a record [type, message]: the class of the        *)
(* exception and str(e); NoException is "nothing was raised".              *)
(* The HTML document is kept as the values the template interpolates, in   *)
(* the order the template places them.                                     *)
(***************************************************************************)
EXTENDS Integers, Sequences, FiniteSets, TLC

\* Longest feedback_items array a request carries.
MaxItems == 2
\* Number of requests the event loop holds at the same time (SpecConc).
MaxSlots == 2

-----------------------------------------------------------------------------
(* JSON values as json.loads builds them *)

Null == [type |-> "null", text |-> "None", fields |-> <<>>, elems |-> <<>>]
Num(t) == [type |-> "number", text |-> t, fields |-> <<>>, elems |-> <<>>]
Str(t) == [type |-> "string", text |-> t, fields |-> <<>>, elems |-> <<>>]
Arr(es) == [type |-> "array", text |-> "[...]", fields |-> <<>>, elems |-> es]
Obj(fs) == [type |-> "object", text |-> "{...}", fields |-> fs, elems |-> <<>>]
EmptyDict == Obj(<<>>)
EmptyList == Arr(<<>>)

\* The request body before json.loads: bytes that are no JSON document.
Unparsable == [type |-> "garbage", text |-> "", fields |-> <<>>, elems |-> <<>>]

\* One-key and two-key objects.
Obj1(k, v) == Obj([x \in {k} |-> v])
Merge(f, g) == [x \in (DOMAIN f) \cup (DOMAIN g) |-> IF x \in DOMAIN g THEN g[x] ELSE f[x]]

-----------------------------------------------------------------------------
(* Python semantics the handlers rely on *)

NoException == [type |-> "", message |-> ""]

\* type(v).__name__
PyTypeName(v) ==
    CASE v.type = "null" -> "NoneType"
      [] v.type = "number" -> "int"
      [] v.type = "string" -> "str"
      [] v.type = "array" -> "list"
      [] OTHER -> "dict"

\* AttributeError of v.get on a value that is no dict.
NoGetError(v) ==
    [type |-> "AttributeError", message |-> "'" \o PyTypeName(v) \o "' object has no attribute 'get'"]
\* TypeError of "for x in v" on a value that cannot be iterated.
NotIterableError(v) ==
    [type |-> "TypeError", message |-> "'" \o PyTypeName(v) \o "' object is not iterable"]
\* TypeError of a dict lookup or membership test with a list or dict key.
UnhashableError(v) ==
    [type |-> "TypeError", message |-> "unhashable type: '" \o PyTypeName(v) \o "'"]

HasGet(v) == v.type = "object"
Hashable(v) == v.type \notin {"array", "object"}
\* dict.get(key, default) on a dict d
PyGet(d, key, default) == IF key \in DOMAIN d.fields THEN d.fields[key] ELSE default
\* v == "literal" for a str literal
EqStr(v, s) == v.type = "string" /\ v.text = s

\* What "for x in v" yields; only called when Iterable(v).  A dict yields its
\* keys and a str its characters: both are str objects.
Iterable(v) == v.type \in {"array", "object", "string"}
RECURSIVE SetToSeq(_)
SetToSeq(S) == IF S = {} THEN <<>> ELSE LET x == CHOOSE y \in S : TRUE IN <<x>> \o SetToSeq(S \ {x})
PyIter(v) ==
    CASE v.type = "array" -> v.elems
      [] v.type = "object" -> [i \in 1..Cardinality(DOMAIN v.fields) |-> Str(SetToSeq(DOMAIN v.fields)[i])]
      [] OTHER -> [i \in 1..Len(v.text) |-> Str("c")]

-----------------------------------------------------------------------------
(* Process-wide tables, main.py:50-100 *)

PinGlyph == "pin"

InitialCategoryEmojis ==
    [c \in {"UI", "UX", "Copy", "Tech"} |->
        CASE c = "UI" -> "palette" [] c = "UX" -> "brain" [] c = "Copy" -> "pen" [] OTHER -> "gear"]

PriorityKeys == <<"critical", "improvement", "nice_to_have">>

InitialPriorityConfig ==
    [p \in {"critical", "improvement", "nice_to_have"} |->
        CASE p = "critical" -> [emoji |-> "red", label |-> "Critico", order |-> 0]
          [] p = "improvement" -> [emoji |-> "yellow", label |-> "Mejora", order |-> 1]
          [] OTHER -> [emoji |-> "green", label |-> "Nice-to-have", order |-> 2]]

InitialToolDefinition ==
    [name |-> "process_meeting_feedback",
     required |-> <<"feedback_items">>,
     item_required |-> <<"item", "category", "priority", "original_quote">>,
     category_enum |-> <<"UI", "UX", "Copy", "Tech">>,
     priority_enum |-> <<"critical", "improvement", "nice_to_have">>]

VARIABLES
    CATEGORY_EMOJIS,   \* main.py:50
    PRIORITY_CONFIG,   \* main.py:57
    TOOL_DEFINITION,   \* main.py:63
    pc,                \* per request slot: "idle", "pending" (handler entered, body awaited), "done"
    endpoint,          \* per slot: "", "/mcp" or "/process-feedback"
    body,              \* per slot: the request body the handler was given
    response,          \* per slot: the HTTP response
    calls              \* per slot: the functions of main.py the handler invoked, in order

tables == <<CATEGORY_EMOJIS, PRIORITY_CONFIG, TOOL_DEFINITION>>
vars == <<CATEGORY_EMOJIS, PRIORITY_CONFIG, TOOL_DEFINITION, pc, endpoint, body, response, calls>>

-----------------------------------------------------------------------------
(* HTML widget generator, main.py:106-205 *)

EmptyGrouped == [p \in {"critical", "improvement", "nice_to_have"} |-> <<>>]

\* Mutant of PriorityOf: the lookup defaults to the empty string.
PriorityOf_EmptyDefault(item) == PyGet(item, "priority", Str(""))

\* item.get("priority", "nice_to_have"), main.py:112
PriorityOf(item) == PyGet(item, "priority", Str("nice_to_have"))

\* Mutant of AppendItem: the record is inserted at the front of the bucket.
AppendItem_Prepend(bucket, item) == <<item>> \o bucket

\* grouped[priority].append(item), main.py:114
AppendItem(bucket, item) == Append(bucket, item)

\* The grouping loop, main.py:111-114, from element i on.
RECURSIVE GroupFrom(_, _, _)
GroupFrom(items, i, grouped) ==
    IF i > Len(items) THEN [raised |-> NoException, grouped |-> grouped]
    ELSE LET item == items[i] IN
         IF ~HasGet(item) THEN [raised |-> NoGetError(item), grouped |-> grouped]
         ELSE LET priority == PriorityOf(item) IN
              IF ~Hashable(priority) THEN [raised |-> UnhashableError(priority), grouped |-> grouped]
              ELSE IF priority.type = "string" /\ priority.text \in DOMAIN grouped
                   THEN GroupFrom(items, i + 1,
                                  [grouped EXCEPT ![priority.text] = AppendItem(@, item)])
                   ELSE GroupFrom(items, i + 1, grouped)

\* main.py:110-114
Grouped(feedback_items) ==
    IF ~Iterable(feedback_items)
    THEN [raised |-> NotIterableError(feedback_items), grouped |-> EmptyGrouped]
    ELSE GroupFrom(PyIter(feedback_items), 1, EmptyGrouped)

\* item.get("category", "UI"), main.py:127
CategoryOf(item) == PyGet(item, "category", Str("UI"))

\* CATEGORY_EMOJIS.get(category, pin), main.py:128; category is hashable.
CategoryEmoji(category, emojis) ==
    IF category.type = "string" /\ category.text \in DOMAIN emojis
    THEN emojis[category.text] ELSE PinGlyph

\* Mutant of EmojisAfterLookups: dict.setdefault in place of dict.get stores
\* the fallback glyph under every category it did not find.
EmojisAfterSetdefault(emojis, categories) ==
    [c \in (DOMAIN emojis) \cup categories |-> IF c \in DOMAIN emojis THEN emojis[c] ELSE PinGlyph]

\* The table after the lookups of main.py:128 for the categories looked up:
\* dict.get reads the table and stores nothing in it.
EmojisAfterLookups(emojis, categories) == emojis

\* Mutant of ItemText: item.get("item") without a default prints None.
ItemText_NoDefault(item) == PyGet(item, "item", Null).text

\* {item.get("item", "")}, main.py:135
ItemText(item) == PyGet(item, "item", Str("")).text

\* {item.get("original_quote", "")}, main.py:136
QuoteText(item) == PyGet(item, "original_quote", Str("")).text

\* One card, main.py:127-138.
Card(item, emojis) ==
    [emoji |-> CategoryEmoji(CategoryOf(item), emojis),
     category |-> CategoryOf(item).text,
     item |-> ItemText(item),
     original_quote |-> QuoteText(item)]

\* main.py:121-139
render_items(items, emojis) ==
    IF Len(items) = 0
    THEN [raised |-> NoException, placeholder |-> TRUE, cards |-> <<>>]
    ELSE IF \E i \in 1..Len(items) : ~Hashable(CategoryOf(items[i]))
    THEN LET i == CHOOSE j \in 1..Len(items) :
                     /\ ~Hashable(CategoryOf(items[j]))
                     /\ \A k \in 1..(j - 1) : Hashable(CategoryOf(items[k]))
         IN [raised |-> UnhashableError(CategoryOf(items[i])),
             placeholder |-> FALSE, cards |-> <<>>]
    ELSE [raised |-> NoException, placeholder |-> FALSE,
          cards |-> [i \in 1..Len(items) |-> Card(items[i], emojis)]]

\* The order the section loop visits the buckets, main.py:143.
SectionOrder == PriorityKeys

\* One priority section, main.py:144-161; only called when render_items does not raise.
Section(priority_key, grouped, emojis, config) ==
    LET r == render_items(grouped[priority_key], emojis) IN
    [emoji |-> config[priority_key].emoji,
     label |-> config[priority_key].label,
     count |-> Len(grouped[priority_key]),
     placeholder |-> r.placeholder,
     cards |-> r.cards]

\* The three summary badges of the document shell, main.py:179-192.
Badges(counts) ==
    << [label |-> "Criticos", count |-> counts["critical"]],
       [label |-> "Mejoras", count |-> counts["improvement"]],
       [label |-> "Nice-to-have", count |-> counts["nice_to_have"]] >>

EmptyHtml == [total |-> 0, badges |-> <<>>, sections |-> <<>>]

\* main.py:106-205
generate_html_widget(feedback_items, emojis, config) ==
    LET g == Grouped(feedback_items) IN
    IF g.raised # NoException THEN [raised |-> g.raised, html |-> EmptyHtml]
    ELSE
    LET grouped == g.grouped
        counts == [p \in DOMAIN grouped |-> Len(grouped[p])]
        total == counts["critical"] + counts["improvement"] + counts["nice_to_have"]
        failing == {i \in 1..Len(SectionOrder) :
                      render_items(grouped[SectionOrder[i]], emojis).raised # NoException}
    IN  IF failing # {}
        THEN LET i == CHOOSE j \in failing : \A k \in failing : j <= k IN
             [raised |-> render_items(grouped[SectionOrder[i]], emojis).raised, html |-> EmptyHtml]
        ELSE [raised |-> NoException,
              html |-> [total |-> total,
                        badges |-> Badges(counts),
                        sections |-> [i \in 1..Len(SectionOrder) |->
                                        Section(SectionOrder[i], grouped, emojis, config)]]]

-----------------------------------------------------------------------------
(* MCP handlers, main.py:211-265.  A handler returns its value together    *)
(* with the functions it invoked.                                         *)

NoContent == [type |-> "", text |-> "", uri |-> "", mimeType |-> "", html |-> EmptyHtml]
NoResult ==
    [keys |-> {}, isError |-> FALSE, content |-> <<>>, tools |-> <<>>,
     protocolVersion |-> "", serverInfo |-> ""]

\* The tool-level error result, main.py:223-229 and 246-252.
ToolError(text) ==
    [NoResult EXCEPT !.keys = {"isError", "content"}, !.isError = TRUE,
                     !.content = << [NoContent EXCEPT !.type = "text", !.text = text] >>]

\* main.py:211-215
handle_tools_list(tooldef) ==
    [NoResult EXCEPT !.keys = {"tools"}, !.tools = <<tooldef>>]

\* Mutant of UnknownTool: a request without a name passes the test.
UnknownTool_OnlyWhenNamed(tool_name) ==
    tool_name.type # "null" /\ ~EqStr(tool_name, "process_meeting_feedback")

\* tool_name != "process_meeting_feedback", main.py:222
UnknownTool(tool_name) == ~EqStr(tool_name, "process_meeting_feedback")

\* Mutant of ExceptClauseCatches: except TypeError in place of except Exception.
ExceptTypeErrorOnly(e) == e.type = "TypeError"

\* except Exception, main.py:245: the exceptions the clause catches.
ExceptClauseCatches(e) == TRUE

\* The outcome of the try block of main.py:231-252 when the block raised e.
Handled(e, invoked) ==
    IF ExceptClauseCatches(e)
    THEN [raised |-> NoException,
          result |-> ToolError("Error processing feedback: " \o e.message),
          calls |-> invoked]
    ELSE [raised |-> e, result |-> NoResult, calls |-> invoked]

\* main.py:217-252
handle_tools_call(params, emojis, config) ==
    LET tool_name == PyGet(params, "name", Null)
        arguments == PyGet(params, "arguments", EmptyDict)
    IN  IF UnknownTool(tool_name)
        THEN [raised |-> NoException,
              result |-> ToolError("Unknown tool: " \o tool_name.text),
              calls |-> <<"handle_tools_call">>]
        ELSE IF ~HasGet(arguments)
        THEN Handled(NoGetError(arguments), <<"handle_tools_call">>)
        ELSE LET feedback_items == PyGet(arguments, "feedback_items", EmptyList)
                 widget == generate_html_widget(feedback_items, emojis, config)
             IN  IF widget.raised # NoException
                 THEN Handled(widget.raised, <<"handle_tools_call", "generate_html_widget">>)
                 ELSE [raised |-> NoException,
                       result |->
                          [NoResult EXCEPT
                              !.keys = {"content"},
                              !.content = << [type |-> "resource", text |-> "",
                                              uri |-> "feedback://widget",
                                              mimeType |-> "text/html+skybridge",
                                              html |-> widget.html] >>],
                       calls |-> <<"handle_tools_call", "generate_html_widget">>]

\* main.py:254-265
handle_initialize ==
    [NoResult EXCEPT !.keys = {"protocolVersion", "capabilities", "serverInfo"},
                     !.protocolVersion = "2024-11-05",
                     !.serverInfo = "feedback-meeting-processor 1.0.0"]

-----------------------------------------------------------------------------
(* POST /mcp, main.py:271-311 *)

ParseErrorCode == -32700
MethodNotFoundCode == -32601

NoError == [code |-> 0, message |-> ""]
NoRest ==
    [success |-> FALSE, total_items |-> 0, critical_count |-> 0, improvement_count |-> 0,
     nice_to_have_count |-> 0, html_widget |-> EmptyHtml]
NoResponse ==
    [http |-> "", keys |-> {}, id |-> Null, error |-> NoError, result |-> NoResult, rest |-> NoRest]

\* What the framework answers when the handler lets an exception escape.
InternalServerError == [NoResponse EXCEPT !.http = "500 Internal Server Error"]
\* What the framework answers when the typed body of /process-feedback does not validate.
UnprocessableEntity == [NoResponse EXCEPT !.http = "422 Unprocessable Entity"]

\* JsonRpcRequest(**body), main.py:40-44 and 283: TRUE when the model is built,
\* FALSE when the call raises (TypeError for a body that is no mapping,
\* ValidationError for a field of the wrong type or a missing method).
\* An int or str id and a dict params are kept as they are; the values the
\* requests of this module carry are accepted or rejected alike by both
\* major versions of pydantic.
JsonRpcRequestValid(b) ==
    /\ b.type = "object"
    /\ "method" \in DOMAIN b.fields
    /\ b.fields["method"].type = "string"
    /\ PyGet(b, "params", Null).type \in {"null", "object"}
    /\ PyGet(b, "id", Null).type \in {"null", "number", "string"}

\* The envelope of main.py:305-309.
Envelope(request_id, result, error) ==
    IF error # NoError
    THEN [NoResponse EXCEPT !.http = "200 OK", !.keys = {"jsonrpc", "id", "error"},
                            !.id = request_id, !.error = error]
    ELSE [NoResponse EXCEPT !.http = "200 OK", !.keys = {"jsonrpc", "id", "result"},
                            !.id = request_id, !.result = result]

\* Mutant of MethodNotFound: the code of "invalid request".
MethodNotFound_InvalidRequest(method) ==
    [code |-> -32600, message |-> "Method not found: " \o method]

\* main.py:302
MethodNotFound(method) ==
    [code |-> MethodNotFoundCode, message |-> "Method not found: " \o method]

\* main.py:279
ParseError == [code |-> ParseErrorCode, message |-> "Parse error"]

\* main.py:271-311
mcp_endpoint(b, emojis, config, tooldef) ==
    IF b.type = "garbage"
    THEN [response |-> [NoResponse EXCEPT !.http = "200 OK", !.keys = {"jsonrpc", "error", "id"},
                                          !.id = Null,
                                          !.error = ParseError],
          calls |-> <<>>]
    ELSE IF ~JsonRpcRequestValid(b)
    THEN [response |-> InternalServerError, calls |-> <<>>]
    ELSE
    LET method == b.fields["method"].text
        given == PyGet(b, "params", Null)
        params == IF given.type = "null" \/ given = EmptyDict THEN EmptyDict ELSE given
        request_id == PyGet(b, "id", Null)
    IN  CASE method = "initialize" ->
               [response |-> Envelope(request_id, handle_initialize, NoError),
                calls |-> <<"handle_initialize">>]
          [] method = "tools/list" ->
               [response |-> Envelope(request_id, handle_tools_list(tooldef), NoError),
                calls |-> <<"handle_tools_list">>]
          [] method = "tools/call" ->
               LET r == handle_tools_call(params, emojis, config) IN
               IF r.raised # NoException
               THEN [response |-> InternalServerError, calls |-> r.calls]
               ELSE [response |-> Envelope(request_id, r.result, NoError), calls |-> r.calls]
          [] method = "notifications/initialized" ->
               [response |-> [NoResponse EXCEPT !.http = "200 OK",
                                                !.keys = {"jsonrpc", "result", "id"},
                                                !.id = request_id],
                calls |-> <<>>]
          [] OTHER ->
               [response |-> Envelope(request_id, NoResult, MethodNotFound(method)),
                calls |-> <<>>]

-----------------------------------------------------------------------------
(* POST /process-feedback, main.py:31-38 and 335-378 *)

ItemFields == {"item", "category", "priority", "original_quote"}

\* Mutant of FeedbackItemValid: priority declared str, not a Literal.
FeedbackItemValid_AnyPriority(e) ==
    /\ e.type = "object"
    /\ {"item", "category", "priority", "original_quote"} \subseteq DOMAIN e.fields
    /\ e.fields["item"].type = "string"
    /\ e.fields["original_quote"].type = "string"
    /\ e.fields["category"].type = "string"
    /\ e.fields["category"].text \in {"UI", "UX", "Copy", "Tech"}
    /\ e.fields["priority"].type = "string"

\* FeedbackItem, main.py:31-35: the validation of one element.
FeedbackItemValid(e) ==
    /\ e.type = "object"
    /\ ItemFields \subseteq DOMAIN e.fields
    /\ e.fields["item"].type = "string"
    /\ e.fields["original_quote"].type = "string"
    /\ e.fields["category"].type = "string"
    /\ e.fields["category"].text \in {"UI", "UX", "Copy", "Tech"}
    /\ e.fields["priority"].type = "string"
    /\ e.fields["priority"].text \in {"critical", "improvement", "nice_to_have"}

\* FeedbackRequest, main.py:335-337: the validation of the body.
FeedbackRequestValid(b) ==
    /\ b.type = "object"
    /\ "feedback_items" \in DOMAIN b.fields
    /\ b.fields["feedback_items"].type = "array"
    /\ \A i \in 1..Len(b.fields["feedback_items"].elems) :
          FeedbackItemValid(b.fields["feedback_items"].elems[i])

\* item.dict(), main.py:361: the declared fields of the validated model.
ItemDict(e) == Obj([f \in ItemFields |-> e.fields[f]])

\* Mutant of Counted: the counts dict lacks the nice_to_have key.
Counted_NoNiceToHave(priority, counts) ==
    priority.type = "string" /\ priority.text \in {"critical", "improvement"}

\* priority in counts, main.py:368
Counted(priority, counts) == priority.type = "string" /\ priority.text \in DOMAIN counts

\* The counting loop, main.py:365-369, from element i on.
RECURSIVE CountFrom(_, _, _)
CountFrom(items, i, counts) ==
    IF i > Len(items) THEN counts
    ELSE LET priority == PyGet(items[i], "priority", Str("nice_to_have")) IN
         IF Counted(priority, counts)
         THEN CountFrom(items, i + 1, [counts EXCEPT ![priority.text] = @ + 1])
         ELSE CountFrom(items, i + 1, counts)

\* main.py:352-378; the items validated, so the Renderer does not raise.
process_feedback(b, emojis, config) ==
    IF ~FeedbackRequestValid(b)
    THEN [response |-> UnprocessableEntity, calls |-> <<>>]
    ELSE
    LET elems == b.fields["feedback_items"].elems
        feedback_items == [i \in 1..Len(elems) |-> ItemDict(elems[i])]
        widget == generate_html_widget(Arr(feedback_items), emojis, config)
        counts == CountFrom(feedback_items, 1,
                            [p \in {"critical", "improvement", "nice_to_have"} |-> 0])
    IN  IF widget.raised # NoException
        THEN [response |-> InternalServerError,
              calls |-> <<"process_feedback", "generate_html_widget">>]
        ELSE [response |->
                 [NoResponse EXCEPT
                     !.http = "200 OK",
                     !.keys = {"success", "total_items", "critical_count", "improvement_count",
                               "nice_to_have_count", "html_widget"},
                     !.rest = [success |-> TRUE,
                               total_items |-> Len(feedback_items),
                               critical_count |-> counts["critical"],
                               improvement_count |-> counts["improvement"],
                               nice_to_have_count |-> counts["nice_to_have"],
                               html_widget |-> widget.html]],
              calls |-> <<"process_feedback", "generate_html_widget">>]

-----------------------------------------------------------------------------
(* The requests clients send *)

Slots == 1..MaxSlots

\* Feedback records: item, category and priority may each be missing, and
\* priority and category range over known and unknown values.
FieldValues(f) ==
    CASE f = "priority" -> {Str("critical"), Str("improvement"), Str("nice_to_have"), Str("urgent")}
      [] f = "category" -> {Str("UI"), Str("Other")}
      [] f = "item" -> {Str("a")}
      [] OTHER -> {Str("q")}
AllFieldValues == UNION {FieldValues(f) : f \in ItemFields}
Records ==
    {d \in UNION {[D -> AllFieldValues] : D \in SUBSET ItemFields} :
        /\ "original_quote" \in DOMAIN d
        /\ \A f \in DOMAIN d : d[f] \in FieldValues(f)}
FullRecord(priority, category) ==
    [f \in ItemFields |->
        CASE f = "priority" -> priority [] f = "category" -> category
          [] f = "item" -> Str("b") [] OTHER -> Str("r")]

\* What a tools/call may carry as an element of feedback_items: the records,
\* records without original_quote, an element that is no mapping, and
\* records whose priority or category is a JSON array.
ToolElems ==
    {Obj(d) : d \in Records}
    \cup {EmptyDict,
          Obj([f \in {"item", "category", "priority"} |-> FullRecord(Str("critical"), Str("UI"))[f]]),
          Str("x"),
          Obj(FullRecord(EmptyList, Str("UI"))),
          Obj(FullRecord(Str("critical"), EmptyList)),
          Obj(FullRecord(Str("urgent"), EmptyList))}

\* What /process-feedback is sent as an element: records that validate and
\* records that do not.
RestElems ==
    {Obj(FullRecord(p, c)) : p \in FieldValues("priority"), c \in {Str("UI"), Str("Tech"), Str("Other")}}
    \cup {Obj(d) : d \in {r \in Records : Cardinality(DOMAIN r) = 3 /\ "category" \in DOMAIN r
                                          /\ r["category"] = Str("UI")}}
    \cup {Str("x"), Obj(FullRecord(Str("critical"), EmptyList))}

\* params of a tools/call around a given feedback_items value
CallParams(name, feedback_items) ==
    Obj([k \in {"name", "arguments"} |->
            IF k = "name" THEN name ELSE Obj1("feedback_items", feedback_items)])

KnownTool == Str("process_meeting_feedback")

\* What the envelopes carry as params.
SmallParams ==
    {Null, Str("x"), EmptyDict, Obj1("name", KnownTool), Obj1("name", Str("nonexistent_tool")),
     Obj1("arguments", Obj1("feedback_items", EmptyList))}
    \cup {Obj([k \in {"name", "arguments"} |-> IF k = "name" THEN n ELSE a]) :
            n \in {KnownTool, Str("nonexistent_tool"), Num("5")},
            a \in {Null, Str("x"), EmptyList, EmptyDict}}
    \cup {CallParams(n, v) :
            n \in {KnownTool, Str("nonexistent_tool")},
            v \in {Null, Num("5"), Str(""), Str("xy"), EmptyDict, Obj1("k", Num("5")), EmptyList,
                   Arr(<<Obj(FullRecord(Str("critical"), Str("UI")))>>)}}

Methods == {"initialize", "tools/list", "tools/call", "notifications/initialized", "resources/list"}
Ids == {Null, Num("7"), Str("req-1"), EmptyList}

\* Bodies of POST /mcp that vary the envelope: bytes that are no JSON, JSON
\* that is no object, and objects with and without method, params and id.
McpEnvelopes ==
    {Unparsable, EmptyList, Str("x")}
    \cup {Obj(Merge(Merge(m, p), i)) :
            m \in {<<>>} \cup {[x \in {"method"} |-> Str(mm)] : mm \in Methods},
            p \in {<<>>} \cup {[x \in {"params"} |-> pp] : pp \in SmallParams},
            i \in {<<>>} \cup {[x \in {"id"} |-> ii] : ii \in Ids}}

\* The body that calls the known tool with the elements items.
ToolCallBody(items) ==
    Obj([k \in {"method", "params", "id"} |->
           CASE k = "method" -> Str("tools/call")
             [] k = "params" -> CallParams(KnownTool, Arr(items))
             [] OTHER -> Num("7")])

\* Bodies of POST /process-feedback without a feedback_items array.
RestMalformed == {Unparsable, EmptyList, EmptyDict, Obj1("feedback_items", Null)}

\* The body of POST /process-feedback with the elements items.
RestBody(items) == Obj1("feedback_items", Arr(items))

\* The requests of the concurrent specification.
ConcRequests ==
    {[endpoint |-> "/mcp", body |-> b] :
        b \in {EmptyList,
               Obj([x \in {"method"} |-> Str("tools/list")]),
               Obj([k \in {"method", "id"} |->
                      IF k = "method" THEN Str("initialize") ELSE Str("req-1")]),
               ToolCallBody(<<Obj(FullRecord(Str("critical"), Str("Other"))),
                              Obj([x \in {"item"} |-> Str("a")])>>)}}
    \cup {[endpoint |-> "/process-feedback",
           body |-> RestBody(<<Obj(FullRecord(Str("improvement"), Str("Tech")))>>)]}

-----------------------------------------------------------------------------
(* The server *)

Init ==
    /\ CATEGORY_EMOJIS = InitialCategoryEmojis
    /\ PRIORITY_CONFIG = InitialPriorityConfig
    /\ TOOL_DEFINITION = InitialToolDefinition
    /\ pc = [s \in Slots |-> "idle"]
    /\ endpoint = [s \in Slots |-> ""]
    /\ body = [s \in Slots |-> Null]
    /\ response = [s \in Slots |-> NoResponse]
    /\ calls = [s \in Slots |-> <<>>]

\* A request reaches the server: the event loop enters the handler, which
\* waits for the body (main.py:275; the typed body of main.py:352).
Accept(s, path, b) ==
    /\ pc[s] = "idle"
    /\ endpoint' = [endpoint EXCEPT ![s] = path]
    /\ body' = [body EXCEPT ![s] = b]
    /\ pc' = [pc EXCEPT ![s] = "pending"]
    /\ UNCHANGED <<tables, response, calls>>

\* The document a response carries (EmptyHtml when it carries none).
WidgetOf(r) ==
    IF r.result.content # <<>> /\ r.result.content[1].type = "resource"
    THEN r.result.content[1].html
    ELSE r.rest.html_widget

\* The categories main.py:128 looked up to build the document html.
LookedUp(html) ==
    UNION {{html.sections[i].cards[j].category : j \in 1..Len(html.sections[i].cards)} :
             i \in 1..Len(html.sections)}

\* mcp_endpoint from the body's arrival to its return: no await in between.
McpHandle(s) ==
    /\ pc[s] = "pending"
    /\ endpoint[s] = "/mcp"
    /\ LET r == mcp_endpoint(body[s], CATEGORY_EMOJIS, PRIORITY_CONFIG, TOOL_DEFINITION) IN
          /\ response' = [response EXCEPT ![s] = r.response]
          /\ calls' = [calls EXCEPT ![s] = r.calls]
          /\ CATEGORY_EMOJIS' = EmojisAfterLookups(CATEGORY_EMOJIS, LookedUp(WidgetOf(r.response)))
    /\ pc' = [pc EXCEPT ![s] = "done"]
    /\ UNCHANGED <<PRIORITY_CONFIG, TOOL_DEFINITION, endpoint, body>>

\* process_feedback with the validation the framework runs before it.
RestHandle(s) ==
    /\ pc[s] = "pending"
    /\ endpoint[s] = "/process-feedback"
    /\ LET r == process_feedback(body[s], CATEGORY_EMOJIS, PRIORITY_CONFIG) IN
          /\ response' = [response EXCEPT ![s] = r.response]
          /\ calls' = [calls EXCEPT ![s] = r.calls]
          /\ CATEGORY_EMOJIS' = EmojisAfterLookups(CATEGORY_EMOJIS, LookedUp(WidgetOf(r.response)))
    /\ pc' = [pc EXCEPT ![s] = "done"]
    /\ UNCHANGED <<PRIORITY_CONFIG, TOOL_DEFINITION, endpoint, body>>

\* The response is written to the client and the request is over.
Deliver(s) ==
    /\ pc[s] = "done"
    /\ pc' = [pc EXCEPT ![s] = "idle"]
    /\ endpoint' = [endpoint EXCEPT ![s] = ""]
    /\ body' = [body EXCEPT ![s] = Null]
    /\ response' = [response EXCEPT ![s] = NoResponse]
    /\ calls' = [calls EXCEPT ![s] = <<>>]
    /\ UNCHANGED tables

\* The requests a client of POST /mcp sends.
McpRequest(s) ==
    /\ pc[s] = "idle"
    /\ \/ \E b \in McpEnvelopes : Accept(s, "/mcp", b)
       \/ \E k \in 0..MaxItems : \E items \in [1..k -> ToolElems] :
             Accept(s, "/mcp", ToolCallBody(items))

\* The requests a client of POST /process-feedback sends.
RestRequest(s) ==
    /\ pc[s] = "idle"
    /\ \/ \E b \in RestMalformed : Accept(s, "/process-feedback", b)
       \/ \E k \in 0..MaxItems : \E items \in [1..k -> RestElems] :
             Accept(s, "/process-feedback", RestBody(items))

\* One request at a time, drawn from every request of the model.
Next ==
    \/ McpRequest(1)
    \/ RestRequest(1)
    \/ McpHandle(1)
    \/ RestHandle(1)
    \/ Deliver(1)

Spec == Init /\ [][Next]_vars

\* A request of the concurrent specification.
ConcRequest(s) ==
    /\ pc[s] = "idle"
    /\ \E r \in ConcRequests : Accept(s, r.endpoint, r.body)

\* Up to MaxSlots requests in flight, their handlers interleaved by the event loop.
NextConc ==
    \E s \in Slots :
        \/ ConcRequest(s)
        \/ McpHandle(s)
        \/ RestHandle(s)
        \/ Deliver(s)

SpecConc == Init /\ [][NextConc]_vars

-----------------------------------------------------------------------------
(* Vocabulary of the properties *)

Range(f) == {f[i] : i \in DOMAIN f}
Done(s) == pc[s] = "done"

\* A JSON-RPC request as the interface describes it: an object with a string
\* method, params an object (or null, or absent) and id an integer, a string,
\* null or absent.
WellFormed(b) ==
    /\ b.type = "object"
    /\ "method" \in DOMAIN b.fields /\ b.fields["method"].type = "string"
    /\ ("params" \in DOMAIN b.fields => b.fields["params"].type \in {"object", "null"})
    /\ ("id" \in DOMAIN b.fields => b.fields["id"].type \in {"number", "string", "null"})

McpDone(s) == Done(s) /\ endpoint[s] = "/mcp"
WellFormedDone(s) == McpDone(s) /\ WellFormed(body[s])
MethodOf(s) == body[s].fields["method"].text
RequestId(s) == IF "id" \in DOMAIN body[s].fields THEN body[s].fields["id"] ELSE Null
ParamsOf(s) ==
    IF "params" \in DOMAIN body[s].fields /\ body[s].fields["params"].type = "object"
    THEN body[s].fields["params"] ELSE EmptyDict
HasName(s) == "name" \in DOMAIN ParamsOf(s).fields
NamesKnownTool(s) ==
    HasName(s) /\ ParamsOf(s).fields["name"] = Str("process_meeting_feedback")
ToolCallDone(s) == WellFormedDone(s) /\ MethodOf(s) = "tools/call"

IsEnvelope(r) == r.http = "200 OK" /\ {"jsonrpc", "id"} \subseteq r.keys
IsResourceResult(res) ==
    /\ res.keys = {"content"} /\ ~res.isError
    /\ Len(res.content) = 1 /\ res.content[1].type = "resource"
IsToolError(res) ==
    /\ "isError" \in res.keys /\ res.isError
    /\ Len(res.content) = 1 /\ res.content[1].type = "text" /\ res.content[1].text # ""

RendererInvoked(s) == "generate_html_widget" \in Range(calls[s])

\* The value the handler of slot s hands to generate_html_widget.
RendererInput(s) ==
    IF endpoint[s] = "/mcp"
    THEN LET arguments == IF "arguments" \in DOMAIN ParamsOf(s).fields
                          THEN ParamsOf(s).fields["arguments"] ELSE EmptyDict
         IN  IF "feedback_items" \in DOMAIN arguments.fields
             THEN arguments.fields["feedback_items"] ELSE EmptyList
    ELSE LET elems == body[s].fields["feedback_items"].elems IN
         Arr([i \in 1..Len(elems) |-> Obj([f \in ItemFields |-> elems[i].fields[f]])])

\* The Renderer was given a sequence and returned a document.
RenderedSeq(s) ==
    /\ Done(s) /\ RendererInvoked(s)
    /\ RendererInput(s).type = "array"
    /\ response[s].http = "200 OK" /\ ~response[s].result.isError

HasPriority(r, k) == "priority" \in DOMAIN r.fields /\ r.fields["priority"] = Str(k)
\* The bucket key a record goes by: its priority, nice_to_have without one.
EffectivePriority(r, k) ==
    IF "priority" \in DOMAIN r.fields THEN r.fields["priority"] = Str(k) ELSE k = "nice_to_have"

WithPriority(items, k) == LET Test(r) == HasPriority(r, k) IN SelectSeq(items, Test)
WithEffectivePriority(items, k) == LET Test(r) == EffectivePriority(r, k) IN SelectSeq(items, Test)

\* items with every missing field of every record set to what defaults gives.
Filled(items, defaults) ==
    [i \in 1..Len(items) |->
        IF items[i].type # "object" THEN items[i]
        ELSE Obj([f \in ItemFields \cup DOMAIN items[i].fields |->
                    IF f \in DOMAIN items[i].fields THEN items[i].fields[f] ELSE defaults[f]])]
EmptyDefaults == [f \in ItemFields |-> Str("")]
CodeDefaults ==
    [f \in ItemFields |->
        CASE f = "priority" -> Str("nice_to_have") [] f = "category" -> Str("UI") [] OTHER -> Str("")]

\* Slot s answered as the Renderer's outcome w on some input prescribes.
AnsweredAs(s, w) ==
    IF w.raised = NoException
    THEN response[s].http = "200 OK" /\ ~response[s].result.isError
         /\ WidgetOf(response[s]) = w.html
    ELSE response[s].result.isError

SectionLabels == <<"Critico", "Mejora", "Nice-to-have">>
BadgeLabels == <<"Criticos", "Mejoras", "Nice-to-have">>

\* The request is one /process-feedback accepted.
Accepted(s) ==
    Done(s) /\ endpoint[s] = "/process-feedback" /\ response[s].http = "200 OK"
RecognizedCount(s) ==
    LET elems == body[s].fields["feedback_items"].elems IN
    Cardinality({i \in 1..Len(elems) :
        \E k \in {"critical", "improvement", "nice_to_have"} : HasPriority(elems[i], k)})

-----------------------------------------------------------------------------
(* Properties *)

\* C1: every POST /mcp request is answered with a JSON-RPC envelope: error
\* code -32700 and id null for a body that is no JSON, and for every body
\* that is JSON exactly one of result and error together with the request's id.
C1_EveryBodyGetsEnvelope ==
    \A s \in Slots : McpDone(s) =>
        LET r == response[s]  b == body[s] IN
        /\ IsEnvelope(r)
        /\ IF b.type = "garbage"
           THEN "error" \in r.keys /\ r.error.code = -32700 /\ r.id = Null
           ELSE /\ Cardinality(r.keys \cap {"result", "error"}) = 1
                /\ r.id = (IF b.type = "object" /\ "id" \in DOMAIN b.fields
                           THEN b.fields["id"] ELSE Null)

\* C2: a tools/call naming process_meeting_feedback is answered, whatever
\* arguments and feedback_items are, with a result and no protocol-level
\* error, the result being the resource or a tool error (isError true, a text).
C2_ToolCallNeverEscapes ==
    \A s \in Slots : (ToolCallDone(s) /\ NamesKnownTool(s)) =>
        LET r == response[s] IN
        /\ IsEnvelope(r)
        /\ "result" \in r.keys /\ "error" \notin r.keys /\ r.error = NoError
        /\ IsResourceResult(r.result) \/ IsToolError(r.result)

\* C2 witness: the Renderer raised on the request's feedback_items and the
\* response is a tool error.
C2_Witness ==
    \E s \in Slots :
        /\ ToolCallDone(s) /\ NamesKnownTool(s) /\ RendererInvoked(s)
        /\ IsToolError(response[s].result)
        /\ RendererInput(s).type = "array"
        /\ \E i \in 1..Len(RendererInput(s).elems) :
              LET e == RendererInput(s).elems[i] IN
              e.type = "object" /\ "priority" \in DOMAIN e.fields
              /\ e.fields["priority"].type = "array"

\* C3: a tools/call that does not name process_meeting_feedback (or names
\* nothing) is answered with result.isError true and a text naming the tool,
\* no protocol-level error, the request's id, and the Renderer is not invoked.
C3_UnknownToolIsToolError ==
    \A s \in Slots : (ToolCallDone(s) /\ ~NamesKnownTool(s)) =>
        LET r == response[s] IN
        /\ IsEnvelope(r)
        /\ "result" \in r.keys /\ "error" \notin r.keys /\ r.error = NoError
        /\ IsToolError(r.result)
        /\ r.result.content[1].text =
              "Unknown tool: " \o (IF HasName(s) THEN ParamsOf(s).fields["name"].text ELSE "None")
        /\ r.id = RequestId(s)
        /\ ~RendererInvoked(s)

\* C3 witness: a tools/call without a name was answered.
C3_Witness ==
    \E s \in Slots :
        /\ ToolCallDone(s) /\ ~HasName(s)
        /\ response[s].result.isError
        /\ RequestId(s) = Str("req-1")

\* C4: a well-formed request gets a protocol-level error exactly when its
\* method is none of the four; the error is -32601 with a message naming the
\* method; notifications/initialized gets result {} and the request's id.
C4_ErrorIffUnknownMethod ==
    \A s \in Slots : WellFormedDone(s) =>
        LET r == response[s] IN
        /\ IsEnvelope(r)
        /\ "error" \in r.keys <=>
              MethodOf(s) \notin {"initialize", "tools/list", "tools/call", "notifications/initialized"}
        /\ "error" \in r.keys =>
              /\ r.error.code = -32601
              /\ r.error.message = "Method not found: " \o MethodOf(s)
              /\ "result" \notin r.keys
        /\ "error" \notin r.keys => r.error = NoError /\ "result" \in r.keys
        /\ MethodOf(s) = "notifications/initialized" =>
              "result" \in r.keys /\ r.result = NoResult /\ r.id = RequestId(s)

\* C4 witness: a well-formed request with an unknown method was answered.
C4_Witness ==
    \E s \in Slots :
        /\ WellFormedDone(s) /\ MethodOf(s) = "resources/list"
        /\ "error" \in response[s].keys /\ response[s].id = Num("7")

\* C5: for an accepted /process-feedback request total_items is the number
\* of items with a recognized priority and the three counts add up to it.
C5_TotalCountsRecognized ==
    \A s \in Slots : Accepted(s) =>
        LET r == response[s].rest IN
        /\ r.total_items = RecognizedCount(s)
        /\ r.critical_count + r.improvement_count + r.nice_to_have_count = r.total_items

\* C5 witness: an accepted request with two items of different priorities.
C5_Witness ==
    \E s \in Slots :
        /\ Accepted(s)
        /\ response[s].rest.total_items >= 2
        /\ response[s].rest.critical_count = 1
        /\ response[s].rest.improvement_count = 1

\* C6: each bucket holds exactly the records whose priority equals its key,
\* other records are in no bucket, not rendered and not counted, and the
\* displayed total is the sum of the bucket sizes.
C6_BucketsByPriorityField ==
    \A s \in Slots : RenderedSeq(s) =>
        LET items == RendererInput(s).elems
            g == Grouped(RendererInput(s)).grouped
            html == WidgetOf(response[s])
        IN  /\ \A i \in 1..3 :
                  LET expect == WithPriority(items, PriorityKeys[i]) IN
                  /\ g[PriorityKeys[i]] = expect
                  /\ html.sections[i].count = Len(expect)
                  /\ Len(html.sections[i].cards) = Len(expect)
            /\ html.total = Len(g["critical"]) + Len(g["improvement"]) + Len(g["nice_to_have"])

\* C6 as amended: each bucket holds exactly the records whose priority
\* equals its key, a record without a priority field counting as
\* nice_to_have; a record whose priority is another value is in no bucket,
\* not rendered, not counted; the displayed total is the sum of the bucket sizes.
C6_BucketsByEffectivePriority ==
    \A s \in Slots : RenderedSeq(s) =>
        LET items == RendererInput(s).elems
            g == Grouped(RendererInput(s)).grouped
            html == WidgetOf(response[s])
        IN  /\ \A i \in 1..3 :
                  LET expect == WithEffectivePriority(items, PriorityKeys[i]) IN
                  /\ g[PriorityKeys[i]] = expect
                  /\ html.sections[i].count = Len(expect)
                  /\ Len(html.sections[i].cards) = Len(expect)
            /\ html.total = Len(g["critical"]) + Len(g["improvement"]) + Len(g["nice_to_have"])
            /\ html.total = Cardinality({i \in 1..Len(items) :
                                \E k \in {"critical", "improvement", "nice_to_have"} :
                                    EffectivePriority(items[i], k)})

\* C6 witness: a document rendered from a record without priority and a
\* record with an unrecognized priority.
C6_Witness ==
    \E s \in Slots :
        /\ RenderedSeq(s)
        /\ \E i, j \in 1..Len(RendererInput(s).elems) :
              /\ "priority" \notin DOMAIN RendererInput(s).elems[i].fields
              /\ HasPriority(RendererInput(s).elems[j], "urgent")
        /\ WidgetOf(response[s]).total = 1

\* C7: the cards of a section are in the input order of their records, and
\* the three sections and the three badges are in the order critical,
\* improvement, nice_to_have.
C7_StableOrder ==
    \A s \in Slots : RenderedSeq(s) =>
        LET items == RendererInput(s).elems
            html == WidgetOf(response[s])
        IN  /\ Len(html.sections) = 3 /\ Len(html.badges) = 3
            /\ \A i \in 1..3 :
                  LET expect == WithEffectivePriority(items, PriorityKeys[i]) IN
                  /\ html.sections[i].label = SectionLabels[i]
                  /\ html.sections[i].emoji = InitialPriorityConfig[PriorityKeys[i]].emoji
                  /\ Len(html.sections[i].cards) = Len(expect)
                  /\ \A j \in 1..Len(expect) :
                        html.sections[i].cards[j] = Card(expect[j], InitialCategoryEmojis)
                  /\ html.badges[i].label = BadgeLabels[i]
                  /\ html.badges[i].count = Len(expect)

\* C7 witness: a section with two different cards.
C7_Witness ==
    \E s \in Slots :
        /\ RenderedSeq(s)
        /\ \E i \in 1..3 :
              /\ Len(WidgetOf(response[s]).sections[i].cards) = 2
              /\ WidgetOf(response[s]).sections[i].cards[1] # WidgetOf(response[s]).sections[i].cards[2]

\* C8: a record that lacks one of the four fields is rendered, without
\* failure, as the record with the empty string in the missing field.
C8_MissingFieldIsEmptyString ==
    \A s \in Slots :
        (Done(s) /\ RendererInvoked(s) /\ RendererInput(s).type = "array") =>
            AnsweredAs(s, generate_html_widget(Arr(Filled(RendererInput(s).elems, EmptyDefaults)),
                                               InitialCategoryEmojis, InitialPriorityConfig))

\* C8 as amended: a record that lacks one of the four fields is rendered,
\* without failure, as the record with the empty string in a missing item or
\* original_quote, nice_to_have in a missing priority and UI in a missing category.
C8_MissingFieldIsDefault ==
    \A s \in Slots :
        (Done(s) /\ RendererInvoked(s) /\ RendererInput(s).type = "array") =>
            /\ AnsweredAs(s, generate_html_widget(Arr(Filled(RendererInput(s).elems, CodeDefaults)),
                                                  InitialCategoryEmojis, InitialPriorityConfig))
            /\ (\A i \in 1..Len(RendererInput(s).elems) :
                    /\ RendererInput(s).elems[i].type = "object"
                    /\ \A f \in DOMAIN RendererInput(s).elems[i].fields :
                          RendererInput(s).elems[i].fields[f].type = "string")
               => ~response[s].result.isError

\* C8 witness: a document rendered from a record with none of the four fields.
C8_Witness ==
    \E s \in Slots :
        /\ RenderedSeq(s)
        /\ \E i \in 1..Len(RendererInput(s).elems) : RendererInput(s).elems[i] = EmptyDict
        /\ \E i \in 1..Len(RendererInput(s).elems) :
              "item" \notin DOMAIN RendererInput(s).elems[i].fields
              /\ "category" \in DOMAIN RendererInput(s).elems[i].fields

\* C9: for an accepted /process-feedback request the four counts of the
\* response are the bucket sizes and the total the Renderer computed and
\* shows in html_widget.
C9_CountsMatchWidget ==
    \A s \in Slots : Accepted(s) =>
        LET r == response[s].rest
            g == Grouped(RendererInput(s)).grouped
        IN  /\ r.critical_count = Len(g["critical"])
            /\ r.improvement_count = Len(g["improvement"])
            /\ r.nice_to_have_count = Len(g["nice_to_have"])
            /\ r.critical_count = r.html_widget.badges[1].count
            /\ r.improvement_count = r.html_widget.badges[2].count
            /\ r.nice_to_have_count = r.html_widget.badges[3].count
            /\ \A i \in 1..3 : r.html_widget.sections[i].count = r.html_widget.badges[i].count
            /\ r.total_items = r.html_widget.total

\* C9 witness: an accepted request with a nice_to_have and a critical item.
C9_Witness ==
    \E s \in Slots :
        /\ Accepted(s)
        /\ response[s].rest.nice_to_have_count = 1
        /\ response[s].rest.critical_count = 1
        /\ response[s].rest.html_widget.total = 2

\* The response to a request handled alone, the tables as at startup.
Alone(path, b) ==
    IF path = "/mcp"
    THEN mcp_endpoint(b, InitialCategoryEmojis, InitialPriorityConfig, InitialToolDefinition).response
    ELSE process_feedback(b, InitialCategoryEmojis, InitialPriorityConfig).response

\* C10: under any interleaving of requests no step changes the three tables
\* or the body of a request in flight, and every response is the one the
\* request gets when it is handled alone.
C10_Isolation ==
    [][/\ CATEGORY_EMOJIS' = InitialCategoryEmojis
       /\ PRIORITY_CONFIG' = InitialPriorityConfig
       /\ TOOL_DEFINITION' = InitialToolDefinition
       /\ \A s \in Slots :
             /\ (pc[s] # "idle" /\ pc'[s] # "idle") => body'[s] = body[s] /\ endpoint'[s] = endpoint[s]
             /\ pc'[s] = "done" => response'[s] = Alone(endpoint'[s], body'[s])]_vars

\* C10 witness: a tools/call that looked up an unknown category is answered
\* while another request, accepted before it, is still in flight and is
\* later answered too.
C10_Witness ==
    \E s, t \in Slots :
        /\ s # t
        /\ Done(s) /\ Done(t)
        /\ endpoint[s] = "/mcp" /\ RendererInvoked(s) /\ "Other" \in LookedUp(WidgetOf(response[s]))
        /\ endpoint[t] = "/process-feedback" /\ RendererInvoked(t)

====
